---- MODULE Spec2Model ----
(***************************************************************************)
(* Model of mc_ssh/mccli.py: the click command line of the ssh wrapper.    *)
(* One behaviour is one invocation of the program: option parsing, then    *)
(* the body of the ssh, scp or sftp subcommand, one step per call the body *)
(* makes to a resolver (init_endpoint, init_token, init_user) or to a      *)
(* transport function (ssh_interactive, ssh_exec, scp_get, scp_put).       *)
(* The resolvers and transports are external: each call succeeds or raises *)
(* nondeterministically.  `log` records every such call in order.          *)
(***************************************************************************)
EXTENDS Integers, Sequences, FiniteSets, TLC

\* ---------------------------------------------------------------- bounds
MaxSources == 2

\* ------------------------------------------------------------- constants
SSH_PORT == 22

None == "None"
Hosts == {"h1", "h2"}
Ports == {0, SSH_PORT, 2222}
PathNames == <<"p1", "p2", "p3", "p4">>
CredentialOptions == {"token", "oa_account", "iss"}
Commands == {None, "", "ls"}

\* what the external calls can raise; PermissionError carries a filename
\* that is either bytes or str
Outcomes == {"ok", "PermissionError_bytes", "PermissionError_str",
             "IsADirectoryError", "FileNotFoundError", "Exception"}

VARIABLES
    cmd,             \* subcommand: "ssh", "scp", "sftp"
    given,           \* credential options present on the command line
    dry_run, port, recursive, preserve_times,
    source, target,  \* scp: validated SOURCE... and TARGET dicts
    hostname, command,   \* ssh arguments
    pc,              \* position in the invocation
    i,               \* scp: index of the source being processed
    rhost, ret,      \* host being resolved, and where to continue after
    endpoint, at, username,  \* locals: values are the log index of the call that produced them
    password, sshpass_cmd,
    log,             \* calls made to resolvers and transports, in order
    printed,         \* what was printed to standard output
    raised,          \* an exception was raised in the body
    escaped          \* the exception that left the subcommand function, or None

vars == <<cmd, given, dry_run, port, recursive, preserve_times, source, target,
          hostname, command, pc, i, rhost, ret, endpoint, at, username,
          password, sshpass_cmd, log, printed, raised, escaped>>

inputs == <<cmd, given, dry_run, port, recursive, preserve_times, source, target,
            hostname, command>>

\* ------------------------------------------------------------- helpers
\* dict.get(key, default)
Get(d, key, default) == IF key \in DOMAIN d THEN d[key] ELSE default

Resolvers == {"init_endpoint", "init_token", "init_user"}
Transports == {"ssh_interactive", "ssh_exec", "scp_get", "scp_put"}

\* one entry of the call log: function, host argument, the source it was
\* made for (0: destination or ssh), outcome, and the endpoint / token /
\* username values passed as arguments (0: not an argument)
Call(fn, host, idx, out, ep, tok, usr) ==
    [fn |-> fn, host |-> host, idx |-> idx, out |-> out,
     ep |-> ep, at |-> tok, user |-> usr]

\* validated SOURCE / TARGET values: {path} for a local path,
\* {host, path} for host:path, {host} for a bare host:
LocalSpec(p) == [path |-> p]
RemoteSpec(h, p) == [host |-> h, path |-> p]

SourceOf(hs) ==
    [k \in DOMAIN hs |-> IF hs[k] = None THEN LocalSpec(PathNames[k])
                                          ELSE RemoteSpec(hs[k], PathNames[k])]

SourceLists ==
    UNION { { SourceOf(hs) : hs \in [1..n -> {None} \cup Hosts] } : n \in 1..MaxSources }

Targets ==
    {LocalSpec("t")} \cup {RemoteSpec(h, "t") : h \in Hosts} \cup {[host |-> "h1"]}

\* lines 106-108 and 114-116
dest_path == Get(target, "path", ".")
dest_host == Get(target, "host", None)
dest_is_remote == dest_host # None
src_path(k) == Get(source[k], "path", ".")
src_host(k) == Get(source[k], "host", None)
src_is_remote(k) == src_host(k) # None

\* ------------------------------------------------------ option parsing
\* The credential options form a MutuallyExclusiveOptionGroup: click
\* rejects the command line when more than one of them is given.
NoExclusion(opts) == FALSE
MutuallyExclusiveOptionGroup(opts) == Cardinality(opts) > 1

\* ------------------------------------------------------- dry-run text
\* str_init_token: the text standing for the token in the printed command;
\* the set of its possible results ("raise": it raises an Exception)
str_init_token(opts) ==
    IF "token" \in opts THEN {"<token>"}
    ELSE IF "oa_account" \in opts THEN {"$(oidc-token <oa_account>)"}
    ELSE IF "iss" \in opts THEN {"$(oidc-token <iss>)"}
    ELSE {None, "raise"}

\* lines 97-103: scp_opts
scp_opts(r, p, P) ==
    (IF r THEN <<" -r">> ELSE <<>>)
    \o (IF p THEN <<" -p">> ELSE <<>>)
    \o (IF P # 0 /\ P # SSH_PORT THEN <<" -P " \o ToString(P)>> ELSE <<>>)

\* lines 64-66: ssh_opts
ssh_opts(p) ==
    IF p # 0 /\ p # SSH_PORT THEN <<" -p " \o ToString(p)>> ELSE <<>>

\* the command line being built: program, password text, option pieces in
\* the order appended, then the operands in the order appended
CmdLine(prog, pw, opts, args, c) ==
    [prog |-> prog, password |-> pw, opts |-> opts, args |-> args, command |-> c]

\* an operand "user@host:path" (user 0, host None: a local path)
Operand(u, h, p) == [user |-> u, host |-> h, path |-> p]

NoCmdLine == CmdLine(None, None, <<>>, <<>>, None)

\* ---------------------------------------------------------- exceptions
\* lines 147-154: the except clauses of scp; what is printed (None:
\* nothing) and which exception leaves the function (None: none)
scp_except(e) ==
    IF e.type = "PermissionError_bytes"
        THEN [msg |-> "<filename>: Permission denied", escaped |-> None]
    ELSE IF e.type = "PermissionError_str"
        \* str has no decode(): the handler itself raises
        THEN [msg |-> None, escaped |-> "AttributeError"]
    ELSE IF e.type = "IsADirectoryError"
        THEN [msg |-> "<filename>: not a regular file", escaped |-> None]
    ELSE IF e.type = "FileNotFoundError"
        THEN [msg |-> "<filename>: No such file or directory", escaped |-> None]
    ELSE [msg |-> e.msg, escaped |-> None]

\* lines 76-77: the except clause of ssh
ssh_except(e) == [msg |-> e.msg, escaped |-> None]

\* where control goes once the except clause has run: the try statement
\* encloses the whole body (and, in scp, the whole for loop)
ContinueWithNextSource(c, k) == IF c = "scp" /\ k > 0 THEN "scp_src" ELSE "done"
AfterExcept(c, k) == "done"

Error(type, msg) == [type |-> type, msg |-> msg]

\* an exception raised inside the try block of subcommand cmd
Raise(e) ==
    LET h == IF cmd = "scp" THEN scp_except(e) ELSE ssh_except(e) IN
    /\ raised' = TRUE
    /\ printed' = IF h.msg = None THEN printed ELSE Append(printed, [kind |-> "error", msg |-> h.msg, line |-> NoCmdLine])
    /\ escaped' = h.escaped
    /\ pc' = IF h.escaped = None THEN AfterExcept(cmd, i) ELSE "done"

\* lines 122-127: which branch of the if / elif chain is taken
WithoutRemoteCheck(s_remote, d_remote) ==
    IF ~s_remote /\ ~d_remote THEN "nohost"
    ELSE IF s_remote /\ ~d_remote THEN "get"
    ELSE "put"
Direction(s_remote, d_remote) ==
    IF ~s_remote /\ ~d_remote THEN "nohost"
    ELSE IF s_remote /\ d_remote THEN "r2r"
    ELSE IF s_remote THEN "get"
    ELSE "put"

\* lines 62, 128, 135: with dry_run the command is printed, not executed
AlwaysExecutes(dry) == TRUE
Executes(dry) == ~dry

\* ------------------------------------------------------------- Init
Init ==
    /\ cmd \in {"ssh", "scp", "sftp"}
    /\ given \in IF cmd = "sftp" THEN {{}} ELSE SUBSET CredentialOptions
    /\ dry_run \in IF cmd = "sftp" THEN {FALSE} ELSE BOOLEAN
    /\ port \in IF cmd = "sftp" THEN {SSH_PORT} ELSE Ports
    /\ recursive \in IF cmd = "scp" THEN BOOLEAN ELSE {FALSE}
    /\ preserve_times \in IF cmd = "scp" THEN BOOLEAN ELSE {FALSE}
    /\ source \in IF cmd = "scp" THEN SourceLists ELSE {<<>>}
    /\ target \in IF cmd = "scp" THEN Targets ELSE {LocalSpec(".")}
    /\ hostname \in IF cmd = "ssh" THEN Hosts ELSE {None}
    /\ command \in IF cmd = "ssh" THEN Commands ELSE {None}
    /\ pc = "parse"
    /\ i = 0
    /\ rhost = None
    /\ ret = None
    /\ endpoint = 0
    /\ at = 0
    /\ username = 0
    /\ password = None
    /\ sshpass_cmd = NoCmdLine
    /\ log = <<>>
    /\ printed = <<>>
    /\ raised = FALSE
    /\ escaped = None

\* ------------------------------------------------------------ actions
locals == <<i, rhost, ret, endpoint, at, username, password, sshpass_cmd>>

Stdout(kind, msg, line) == Append(printed, [kind |-> kind, msg |-> msg, line |-> line])

\* click parses the command line (lines 12-36, 48-55, 80-91) and calls the
\* subcommand only when parsing succeeded
Parse ==
    /\ pc = "parse"
    /\ pc' = IF cmd \in {"ssh", "scp"} /\ MutuallyExclusiveOptionGroup(given)
                THEN "usage_error" ELSE cmd
    /\ UNCHANGED <<inputs, locals, log, printed, raised, escaped>>

\* lines 157-159
sftp ==
    /\ pc = "sftp"
    /\ printed' = Stdout("text", "Not implemented.", NoCmdLine)
    /\ pc' = "done"
    /\ UNCHANGED <<inputs, locals, log, raised, escaped>>

\* lines 58-59: ssh enters its try block and resolves hostname
ssh ==
    /\ pc = "ssh"
    /\ rhost' = hostname
    /\ ret' = "ssh_run"
    /\ pc' = "init_endpoint"
    /\ UNCHANGED <<inputs, i, endpoint, at, username, password, sshpass_cmd,
                   log, printed, raised, escaped>>

\* lines 59, 110, 118: init_endpoint(mc_endpoint, host, verify)
init_endpoint ==
    /\ pc = "init_endpoint"
    /\ \E out \in {"ok", "Exception"} :
        /\ log' = Append(log, Call("init_endpoint", rhost, i, out, 0, 0, 0))
        /\ IF out = "ok"
              THEN /\ endpoint' = Len(log) + 1
                   /\ pc' = "init_token"
                   /\ UNCHANGED <<printed, raised, escaped>>
              ELSE /\ Raise(Error(out, "init_endpoint failed"))
                   /\ UNCHANGED endpoint
    /\ UNCHANGED <<inputs, i, rhost, ret, at, username, password, sshpass_cmd>>

\* lines 60, 111, 119: init_token(token, oa_account, iss, endpoint, verify)
init_token ==
    /\ pc = "init_token"
    /\ \E out \in {"ok", "Exception"} :
        /\ log' = Append(log, Call("init_token", rhost, i, out, endpoint, 0, 0))
        /\ IF out = "ok"
              THEN /\ at' = Len(log) + 1
                   /\ pc' = "init_user"
                   /\ UNCHANGED <<printed, raised, escaped>>
              ELSE /\ Raise(Error(out, "init_token failed"))
                   /\ UNCHANGED at
    /\ UNCHANGED <<inputs, i, rhost, ret, endpoint, username, password, sshpass_cmd>>

\* lines 61, 112, 120: init_user(endpoint, at, verify)
init_user ==
    /\ pc = "init_user"
    /\ \E out \in {"ok", "Exception"} :
        /\ log' = Append(log, Call("init_user", rhost, i, out, endpoint, at, 0))
        /\ IF out = "ok"
              THEN /\ username' = Len(log) + 1
                   /\ pc' = ret
                   /\ UNCHANGED <<printed, raised, escaped>>
              ELSE /\ Raise(Error(out, "init_user failed"))
                   /\ UNCHANGED username
    /\ UNCHANGED <<inputs, i, rhost, ret, endpoint, at, password, sshpass_cmd>>

\* lines 62-75: ssh prints the command line or runs the transport
ssh_run ==
    /\ pc = "ssh_run"
    /\ IF ~Executes(dry_run)
          THEN \E pw \in str_init_token(given) :
                 IF pw = "raise"
                    THEN /\ Raise(Error("Exception", "str_init_token failed"))
                         /\ UNCHANGED <<password, sshpass_cmd, log>>
                    ELSE LET line == CmdLine("ssh", pw, ssh_opts(port),
                                             <<Operand(username, hostname, None)>>,
                                             IF command # None /\ command # ""
                                                THEN command ELSE None) IN
                         /\ password' = pw
                         /\ sshpass_cmd' = line
                         /\ printed' = Stdout("cmd", None, line)
                         /\ pc' = "done"
                         /\ UNCHANGED <<log, raised, escaped>>
          ELSE \E out \in Outcomes :
                 /\ log' = Append(log, Call(IF command = None THEN "ssh_interactive"
                                                              ELSE "ssh_exec",
                                            hostname, i, out, 0, at, username))
                 /\ IF out = "ok"
                       THEN /\ pc' = "done"
                            /\ UNCHANGED <<printed, raised, escaped>>
                       ELSE Raise(Error(out, "transport failed"))
                 /\ UNCHANGED <<password, sshpass_cmd>>
    /\ UNCHANGED <<inputs, i, rhost, ret, endpoint, at, username>>

\* lines 95-104: scp builds the head of the dry-run command line, before
\* its try block
scp ==
    /\ pc = "scp"
    /\ IF dry_run
          THEN \E pw \in str_init_token(given) :
                 IF pw = "raise"
                    THEN /\ raised' = TRUE
                         /\ escaped' = "Exception"
                         /\ pc' = "done"
                         /\ UNCHANGED <<password, sshpass_cmd>>
                    ELSE /\ password' = pw
                         /\ sshpass_cmd' = CmdLine("scp", pw,
                                scp_opts(recursive, preserve_times, port), <<>>, None)
                         /\ pc' = "scp_dest"
                         /\ UNCHANGED <<raised, escaped>>
          ELSE /\ pc' = "scp_dest"
               /\ UNCHANGED <<password, sshpass_cmd, raised, escaped>>
    /\ UNCHANGED <<inputs, i, rhost, ret, endpoint, at, username, log, printed>>

\* lines 105-112: the destination, resolved when it is remote
scp_dest ==
    /\ pc = "scp_dest"
    /\ IF dest_is_remote
          THEN /\ rhost' = dest_host
               /\ ret' = "scp_src"
               /\ pc' = "init_endpoint"
          ELSE /\ pc' = "scp_src"
               /\ UNCHANGED <<rhost, ret>>
    /\ UNCHANGED <<inputs, i, endpoint, at, username, password, sshpass_cmd,
                   log, printed, raised, escaped>>

\* lines 113-120: the for loop takes the next source, resolved when remote
scp_src ==
    /\ pc = "scp_src"
    /\ IF i + 1 > Len(source)
          THEN /\ pc' = "scp_end"
               /\ UNCHANGED <<i, rhost, ret>>
          ELSE /\ i' = i + 1
               /\ IF src_is_remote(i + 1)
                     THEN /\ rhost' = src_host(i + 1)
                          /\ ret' = "scp_copy"
                          /\ pc' = "init_endpoint"
                     ELSE /\ pc' = "scp_copy"
                          /\ UNCHANGED <<rhost, ret>>
    /\ UNCHANGED <<inputs, endpoint, at, username, password, sshpass_cmd,
                   log, printed, raised, escaped>>

\* a transport call of scp (lines 131-133, 138-140)
Transfer(fn, host) ==
    \E out \in Outcomes :
        /\ log' = Append(log, Call(fn, host, i, out, 0, at, username))
        /\ IF out = "ok"
              THEN /\ pc' = "scp_src"
                   /\ UNCHANGED <<printed, raised, escaped>>
              ELSE Raise(Error(out, "transport failed"))
        /\ UNCHANGED sshpass_cmd

\* an operand added to the dry-run command line (lines 129, 136)
AddOperand(op) ==
    /\ sshpass_cmd' = [sshpass_cmd EXCEPT !.args = Append(@, op)]
    /\ pc' = "scp_src"
    /\ UNCHANGED <<log, printed, raised, escaped>>

\* lines 122-140: the direction check and the copy of source i
scp_copy ==
    /\ pc = "scp_copy"
    /\ LET d == Direction(src_is_remote(i), dest_is_remote) IN
       IF d = "nohost"
          THEN /\ Raise(Error("Exception", "No remote host specified. Use regular cp instead."))
               /\ UNCHANGED <<log, sshpass_cmd>>
       ELSE IF d = "r2r"
          THEN /\ Raise(Error("Exception", "scp between remote hosts not yet supported."))
               /\ UNCHANGED <<log, sshpass_cmd>>
       ELSE IF d = "get"
          THEN IF Executes(dry_run)
                  THEN Transfer("scp_get", src_host(i))
                  ELSE AddOperand(Operand(username, src_host(i), src_path(i)))
       ELSE IF Executes(dry_run)
                  THEN Transfer("scp_put", dest_host)
                  ELSE AddOperand(Operand(0, None, src_path(i)))
    /\ UNCHANGED <<inputs, i, rhost, ret, endpoint, at, username, password>>

\* lines 141-146: after the loop, the dry-run command line is printed
scp_end ==
    /\ pc = "scp_end"
    /\ IF dry_run
          THEN LET line == [sshpass_cmd EXCEPT !.args = Append(@,
                              IF dest_is_remote
                                 THEN Operand(username, dest_host, dest_path)
                                 ELSE Operand(0, None, dest_path))] IN
               /\ sshpass_cmd' = line
               /\ printed' = Stdout("cmd", None, line)
          ELSE UNCHANGED <<sshpass_cmd, printed>>
    /\ pc' = "done"
    /\ UNCHANGED <<inputs, i, rhost, ret, endpoint, at, username, password,
                   log, raised, escaped>>

Next ==
    \/ Parse
    \/ sftp
    \/ ssh
    \/ init_endpoint
    \/ init_token
    \/ init_user
    \/ ssh_run
    \/ scp
    \/ scp_dest
    \/ scp_src
    \/ scp_copy
    \/ scp_end

Spec == Init /\ [][Next]_vars

\* ------------------------------------------------------------- claims
Called(fns) == { k \in DOMAIN log : log[k].fn \in fns }
AllLocal == ~dest_is_remote /\ \A k \in DOMAIN source : ~src_is_remote(k)
Lines == { k \in DOMAIN printed : printed[k].kind = "cmd" }

\* C1: for ssh and scp, when --token, --oa-account and --iss are all given,
\* parsing fails and the body never runs: no resolver and no transport is
\* called, and nothing is printed by the body.
C1_ParseFailsBeforeAnyCall ==
    (cmd \in {"ssh", "scp"} /\ given = CredentialOptions)
        => /\ pc \in {"parse", "usage_error"}
           /\ log = <<>>
           /\ printed = <<>>
           /\ ~raised

C1_Witness ==
    /\ cmd = "scp"
    /\ given = CredentialOptions
    /\ pc = "usage_error"

\* C2: an scp invocation with --dry-run never calls init_endpoint,
\* init_token or init_user.
C2_DryRunScpNoNetwork ==
    (cmd = "scp" /\ dry_run) => Called(Resolvers) = {}

\* C3: an scp invocation where a source and the target both name a host
\* never calls scp_put or scp_get, whatever the order of the sources.
C3_RemoteToRemoteNoTransfer ==
    (cmd = "scp" /\ dest_is_remote /\ \E k \in DOMAIN source : src_is_remote(k))
        => Called({"scp_put", "scp_get"}) = {}

\* C4: an scp invocation where no source and no target names a host calls no
\* resolver and no transport, and ends with the 'No remote host specified'
\* message printed, with or without --dry-run.
C4_NoHostFails ==
    (cmd = "scp" /\ AllLocal)
        => /\ log = <<>>
           /\ pc = "done" =>
                /\ escaped = None
                /\ Len(printed) = 1
                /\ printed[1].kind = "error"
                /\ printed[1].msg = "No remote host specified. Use regular cp instead."

\* C5: in the printed dry-run command line the flags are exactly: for scp
\* ' -r' iff recursive, then ' -p' iff preserve_times, then ' -P <port>' iff
\* port differs from 22; for ssh ' -p <port>' iff port differs from 22.
C5_ExpectedOpts ==
    IF cmd = "scp"
       THEN (IF recursive THEN <<" -r">> ELSE <<>>)
            \o (IF preserve_times THEN <<" -p">> ELSE <<>>)
            \o (IF port # SSH_PORT THEN <<" -P " \o ToString(port)>> ELSE <<>>)
       ELSE IF port # SSH_PORT THEN <<" -p " \o ToString(port)>> ELSE <<>>

C5_FlagsIffNotDefault ==
    \A k \in Lines : printed[k].line.opts = C5_ExpectedOpts

\* C6: every error raised while ssh or scp runs is caught inside the
\* subcommand and ends in one printed message; none leaves the function and
\* no failed call is followed by another call.
C6_AllErrorsCaughtAndPrinted ==
    /\ escaped = None
    /\ (raised /\ pc = "done") =>
            /\ Len(printed) = 1
            /\ printed[1].kind = "error"
    /\ \A k \in DOMAIN log : log[k].out # "ok" => k = Len(log)

\* C7: with --dry-run no transport function is called, and an invocation
\* that ends without error has printed exactly one command line, listing
\* every source in argument order and then the target.
C7_Listed(line) ==
    IF cmd = "scp"
       THEN /\ line.prog = "scp"
            /\ Len(line.args) = Len(source) + 1
            /\ \A k \in DOMAIN source :
                  /\ line.args[k].host = src_host(k)
                  /\ line.args[k].path = src_path(k)
            /\ line.args[Len(source) + 1].host = dest_host
            /\ line.args[Len(source) + 1].path = dest_path
       ELSE /\ line.prog = "ssh"
            /\ Len(line.args) = 1
            /\ line.args[1].host = hostname

C7_DryRunNeverTransports ==
    dry_run =>
        /\ Called(Transports) = {}
        /\ (pc = "done" /\ ~raised) =>
              /\ Len(printed) = 1
              /\ printed[1].kind = "cmd"
              /\ C7_Listed(printed[1].line)

C7_Witness ==
    /\ cmd = "scp"
    /\ dry_run
    /\ pc = "done"
    /\ ~raised
    /\ Len(source) = 2
    /\ src_is_remote(1)
    /\ src_is_remote(2)
    /\ Len(printed) = 1

\* C8: every transport call comes after init_endpoint, init_token and
\* init_user succeeded, in that order, for the host the transport connects
\* to, and is passed the token and username of that resolution; scp_get
\* connects to its own source's host, scp_put to the destination host.
C8_ResolvedFor(t) ==
    LET c == log[t]
        u == c.user
        a == c.at
    IN  /\ u \in 1..(t - 1)
        /\ a \in 1..(u - 1)
        /\ log[u].fn = "init_user" /\ log[u].out = "ok" /\ log[u].host = c.host
        /\ log[u].at = a
        /\ log[a].fn = "init_token" /\ log[a].out = "ok" /\ log[a].host = c.host
        /\ LET e == log[a].ep IN
              /\ e \in 1..(a - 1)
              /\ log[u].ep = e
              /\ log[e].fn = "init_endpoint" /\ log[e].out = "ok"
              /\ log[e].host = c.host

C8_ConnectsTo(t) ==
    LET c == log[t] IN
    IF c.fn = "scp_get" THEN c.idx \in DOMAIN source /\ c.host = src_host(c.idx)
    ELSE IF c.fn = "scp_put" THEN c.host = dest_host
    ELSE c.host = hostname

C8_TransportAfterOwnResolution ==
    \A t \in Called(Transports) : C8_ResolvedFor(t) /\ C8_ConnectsTo(t) /\ log[t].host # None

C8_Witness ==
    /\ cmd = "scp"
    /\ Len(source) = 2
    /\ src_host(1) = "h1"
    /\ src_host(2) = "h2"
    /\ Cardinality(Called({"scp_get"})) = 2

\* C9: within one scp invocation each resolver is called at most once per
\* distinct host.
C9_ResolvedOncePerHost ==
    cmd = "scp" =>
        \A h \in Hosts : \A fn \in Resolvers :
            Cardinality({ k \in DOMAIN log : log[k].fn = fn /\ log[k].host = h }) <= 1

\* C10: scp processes its sources in argument order, one at a time; the
\* first error ends the command (no call is made for a later source), and
\* the calls already made stay made.
C10_InOrder ==
    /\ \A k \in DOMAIN log : \A l \in DOMAIN log : k < l => log[k].idx <= log[l].idx
    /\ \A k \in DOMAIN log : log[k].idx <= i
    /\ \A k \in DOMAIN log : log[k].out # "ok" => (raised /\ k = Len(log))

C10_Step ==
    /\ i' \in {i, i + 1}
    /\ raised => (log' = log /\ i' = i /\ raised')
    /\ Len(log') >= Len(log)
    /\ SubSeq(log', 1, Len(log)) = log

C10_FirstErrorEndsCommand == [](cmd = "scp" => C10_InOrder) /\ [][cmd = "scp" => C10_Step]_vars

C10_Witness ==
    /\ cmd = "scp"
    /\ raised
    /\ pc = "done"
    /\ Len(source) = 2
    /\ i = 1
    /\ Called({"scp_get", "scp_put"}) = {}

====
